---- MODULE Spec2Model ----
(***************************************************************************)
(* Model of gateway.py: a FastAPI application with a static service table  *)
(* SERVICES, the aggregate health endpoint health_check and the catch-all  *)
(* reverse-proxy handler gateway_proxy.                                    *)
(*                                                                         *)
(* Handlers are asyncio coroutines: a handler runs atomically between two  *)
(* awaits, so every action below is the code between two awaits.           *)
(* Strings that the code takes apart or puts together (URLs, paths, query  *)
(* strings) are sequences of characters; a Python dict is the sequence of  *)
(* its <<key, value>> pairs in insertion order.                            *)
(***************************************************************************)
EXTENDS Integers, Sequences, FiniteSets, TLC

\* ------------------------------------------------------------------ bounds

\* Number of connections the server handles concurrently.
MaxRequests == 1
\* Longest path remainder, query string and header list of a request.
MaxPathLen == 2
MaxQueryLen == 1
MaxHeaders == 2

\* ------------------------------------------------------------ Python dicts

Keys(d) == {d[i][1] : i \in 1..Len(d)}

DictHas(d, k) == k \in Keys(d)

DictGet(d, k) == d[CHOOSE i \in 1..Len(d) : d[i][1] = k][2]

\* d[k] = v: an existing key keeps its place, a new key goes last.
DictSet(d, k, v) ==
    IF DictHas(d, k)
    THEN [i \in 1..Len(d) |-> IF d[i][1] = k THEN <<k, v>> ELSE d[i]]
    ELSE Append(d, <<k, v>>)

\* --------------------------------------------------------------- constants

\* The module-level SERVICES dict.
ServiceTable ==
    << <<"users",    <<"http:", "/", "/", "localhost:8001">> >>,
       <<"orders",   <<"http:", "/", "/", "localhost:8002">> >>,
       <<"products", <<"http:", "/", "/", "localhost:8003">> >> >>

\* methods=[...] of the api_route decorator.
Methods == {"GET", "POST", "PUT", "DELETE", "PATCH"}

\* ------------------------------------------------------------ input spaces

\* The methods concurrent requests are sent with: one that is safe to repeat
\* and one that is not. The handler does not branch on the method.
RequestMethods == {"GET", "POST"}

\* First path segments a caller may send: the three services and one more.
ServiceNames == {"users", "orders", "products", "payments"}

PathChars == {"a", "/"}
QueryChars == {"q", "?"}
HeaderNames == {"Host", "connection", "TE", "accept"}

SeqsUpTo(S, n) == UNION {[1..k -> S] : k \in 0..n}

Paths == SeqsUpTo(PathChars, MaxPathLen)
Queries == SeqsUpTo(QueryChars, MaxQueryLen)
HeaderLists == SeqsUpTo(HeaderNames \X {"v"}, MaxHeaders)

\* What the backend does with a request, were one sent to it.
Upstreams == {"ok200", "ok404", "malformed", "timeout", "connect_error"}

\* What a health probe meets.
ProbeOutcomes == {"2xx", "non2xx", "timeout", "connect_error", "other_error"}

VARIABLES
    SERVICES,       \* the service table
    pc,             \* pc[r]: where connection r's gateway_proxy call stands
    req,            \* req[r]: the inbound request
    target_url,     \* target_url[r]: the local of that name
    fwd_headers,    \* fwd_headers[r]: the headers= argument of client.request
    body_read,      \* body_read[r]: how await request.body() ended
    upstream,       \* upstream[r]: what the backend does during the request
    attempts,       \* attempts[r]: upstream requests put on the wire
    status,         \* status[r]: status code answered to the caller
    responses,      \* responses[r]: responses written to the caller
    fault,          \* fault[r]: an exception left the handler uncaught
    hpc,            \* where the health_check call stands
    health_status,  \* health_status["services"] of health_check
    probe,          \* what each probe of the running health_check met
    hfault          \* an exception left health_check uncaught

vars == <<SERVICES, pc, req, target_url, fwd_headers, body_read, upstream,
          attempts, status, responses, fault, hpc, health_status, probe, hfault>>

proxyVars == <<pc, req, target_url, fwd_headers, body_read, upstream,
               attempts, status, responses, fault>>

healthVars == <<hpc, health_status, probe, hfault>>

Conns == 1..MaxRequests

NoRequest == [method |-> "none", service |-> "none", path |-> <<>>,
              query |-> <<>>, headers |-> <<>>]

Init ==
    /\ SERVICES = ServiceTable
    /\ pc = [r \in Conns |-> "idle"]
    /\ req = [r \in Conns |-> NoRequest]
    /\ target_url = [r \in Conns |-> <<>>]
    /\ fwd_headers = [r \in Conns |-> <<>>]
    /\ body_read = [r \in Conns |-> "none"]
    /\ upstream = [r \in Conns |-> "none"]
    /\ attempts = [r \in Conns |-> 0]
    /\ status = [r \in Conns |-> 0]
    /\ responses = [r \in Conns |-> 0]
    /\ fault = [r \in Conns |-> FALSE]
    /\ hpc = "idle"
    /\ health_status = <<>>
    /\ probe = <<>>
    /\ hfault = FALSE

\* ----------------------------------------------------------- gateway_proxy

\* service not in SERVICES, negated.
ServiceKnownAlways(service) == TRUE

ServiceKnown(service) == DictHas(SERVICES, service)

\* f"{service_url}/{path}", then "?" and the query when there is one.
TargetUrlAlwaysQuery(service_url, path, query) ==
    service_url \o <<"/">> \o path \o <<"?">> \o query

TargetUrl(service_url, path, query) ==
    LET url == service_url \o <<"/">> \o path
    IN  IF query # <<>> THEN url \o <<"?">> \o query ELSE url

\* str.lower on a header name.
Lower(k) ==
    CASE k = "Host" -> "host"
      [] k = "TE" -> "te"
      [] OTHER -> k

\* The list the comprehension tests k.lower() against.
StrippedHeaders == {"host", "connection"}

\* {k: v for k, v in request.headers.items() if k.lower() not in [...]}
RECURSIVE ForwardHeaders(_)
ForwardHeaders(items) ==
    IF items = <<>>
    THEN <<>>
    ELSE LET front == ForwardHeaders(SubSeq(items, 1, Len(items) - 1))
             last == items[Len(items)]
         IN  IF Lower(last[1]) \in StrippedHeaders
             THEN front
             ELSE DictSet(front, last[1], last[2])

\* client.request(...) with no await in front of it: calling the coroutine
\* function builds a coroutine object and runs none of its body, so nothing
\* goes on the wire and nothing can be raised, whatever the backend does.
RequestCall(up) ==
    [kind |-> "coroutine", sent |-> 0, status_code |-> 0, text |-> "none"]

Return(code, sent) == [kind |-> "return", status |-> code, exc |-> "none", sent |-> sent]

Raise(exc, sent) == [kind |-> "raise", status |-> 0, exc |-> exc, sent |-> sent]

\* JSONResponse(content=response.json() if response.text else {},
\*              status_code=response.status_code, ...)
\* An object that is no httpx.Response has no attribute text.
RelayResponse(response) ==
    IF response.kind # "response"
    THEN Raise("AttributeError", response.sent)
    ELSE IF response.text = ""
    THEN Return(response.status_code, response.sent)
    ELSE IF response.text = "malformed"
    THEN Raise("JSONDecodeError", response.sent)
    ELSE Return(response.status_code, response.sent)

\* The body of the try statement: await request.body(), then the call and
\* the relay.
TryBlock(body, up) ==
    IF body # "ok"
    THEN Raise(body, 0)
    ELSE RelayResponse(RequestCall(up))

TimeoutExceptions == {"ConnectTimeout", "ReadTimeout", "WriteTimeout", "PoolTimeout"}

\* Classes derived from Exception that the try block may meet.
Exceptions ==
    TimeoutExceptions \cup {"ConnectError", "AttributeError", "JSONDecodeError",
                            "ClientDisconnect"}

\* The except clauses in order, without the last one.
ExceptStatusNoCatchAll(exc) ==
    IF exc \in TimeoutExceptions THEN 504
    ELSE IF exc = "ConnectError" THEN 503
    ELSE 0

\* The except clauses in order: the status of the HTTPException each raises,
\* 0 when no clause matches and the exception leaves the handler.
ExceptStatus(exc) ==
    IF exc \in TimeoutExceptions THEN 504
    ELSE IF exc = "ConnectError" THEN 503
    ELSE IF exc \in Exceptions THEN 500
    ELSE 0

\* An HTTPException, or a returned response, is written to the caller once.
Respond(r, code) ==
    /\ status' = [status EXCEPT ![r] = code]
    /\ responses' = [responses EXCEPT ![r] = @ + 1]
    /\ fault' = fault
    /\ pc' = [pc EXCEPT ![r] = "done"]

\* An exception that leaves the handler reaches the server, which answers 500.
Crash(r) ==
    /\ status' = [status EXCEPT ![r] = 500]
    /\ responses' = [responses EXCEPT ![r] = @ + 1]
    /\ fault' = [fault EXCEPT ![r] = TRUE]
    /\ pc' = [pc EXCEPT ![r] = "done"]

\* A request arrives and gateway_proxy runs up to await request.body():
\* the service check, target_url, the client.
ProxyStart(r, methods, paths, queries, headerlists) ==
    /\ pc[r] = "idle"
    /\ \E m \in methods \cap Methods, s \in ServiceNames, p \in paths, q \in queries,
          h \in headerlists :
          /\ req' = [req EXCEPT ![r] = [method |-> m, service |-> s, path |-> p,
                                        query |-> q, headers |-> h]]
          /\ IF ~ServiceKnown(s)
             THEN /\ Respond(r, 404)
                  /\ UNCHANGED target_url
             ELSE IF ~DictHas(SERVICES, s)
             THEN /\ Crash(r)           \* SERVICES[service]: KeyError
                  /\ UNCHANGED target_url
             ELSE /\ target_url' =
                         [target_url EXCEPT ![r] = TargetUrl(DictGet(SERVICES, s), p, q)]
                  /\ pc' = [pc EXCEPT ![r] = "await_body"]
                  /\ UNCHANGED <<status, responses, fault>>
    /\ UNCHANGED <<SERVICES, fwd_headers, body_read, upstream, attempts>>
    /\ UNCHANGED healthVars

\* How await request.body() may end, with what the backend does meanwhile.
Exchanges == {<<"ok", up>> : up \in Upstreams} \cup {<<"ClientDisconnect", "none">>}

\* From the body read to the end of the handler: the call of client.request,
\* the relay, the except clauses.
ProxyForward(r) ==
    /\ pc[r] = "await_body"
    /\ \E x \in Exchanges :
          LET out == TryBlock(x[1], x[2])
              code == IF out.kind = "return" THEN out.status ELSE ExceptStatus(out.exc)
          IN  /\ body_read' = [body_read EXCEPT ![r] = x[1]]
              /\ upstream' = [upstream EXCEPT ![r] = x[2]]
              /\ fwd_headers' = [fwd_headers EXCEPT ![r] =
                                    IF x[1] = "ok" THEN ForwardHeaders(req[r].headers)
                                    ELSE <<>>]
              /\ attempts' = [attempts EXCEPT ![r] = @ + out.sent]
              /\ IF code = 0 THEN Crash(r) ELSE Respond(r, code)
    /\ UNCHANGED <<SERVICES, req, target_url>>
    /\ UNCHANGED healthVars

\* The response is out and the connection takes the next request.
ProxyClose(r) ==
    /\ pc[r] = "done"
    /\ pc' = [pc EXCEPT ![r] = "idle"]
    /\ req' = [req EXCEPT ![r] = NoRequest]
    /\ target_url' = [target_url EXCEPT ![r] = <<>>]
    /\ fwd_headers' = [fwd_headers EXCEPT ![r] = <<>>]
    /\ body_read' = [body_read EXCEPT ![r] = "none"]
    /\ upstream' = [upstream EXCEPT ![r] = "none"]
    /\ attempts' = [attempts EXCEPT ![r] = 0]
    /\ status' = [status EXCEPT ![r] = 0]
    /\ responses' = [responses EXCEPT ![r] = 0]
    /\ fault' = [fault EXCEPT ![r] = FALSE]
    /\ UNCHANGED SERVICES
    /\ UNCHANGED healthVars

\* ------------------------------------------------------------ health_check

\* The try statement of the loop with an except clause for httpx errors only.
ProbeEntryHttpxOnly(outcome) ==
    IF outcome \in {"timeout", "connect_error"} THEN "unhealthy"
    ELSE IF outcome = "other_error" THEN "raise"
    ELSE "healthy"

\* The try statement of the loop: client.get raises on a timeout, a connect
\* failure or any other error, and returns a response of any status
\* otherwise; the response is not looked at.
ProbeEntry(outcome) ==
    IF outcome \in {"timeout", "connect_error", "other_error"}
    THEN "unhealthy"
    ELSE "healthy"

\* GET /health arrives: health_status = {"gateway": "healthy", "services": {}}.
HealthStart ==
    /\ hpc = "idle"
    /\ hpc' = "probing"
    /\ health_status' = <<>>
    /\ probe' = <<>>
    /\ hfault' = FALSE
    /\ UNCHANGED SERVICES
    /\ UNCHANGED proxyVars

\* One turn of the loop over SERVICES.items(): the awaited probe and the
\* entry it leaves. After the last turn the handler returns health_status.
HealthProbe ==
    /\ hpc = "probing"
    /\ LET i == Len(probe) + 1
           service_name == SERVICES[i][1]
       IN  \E outcome \in ProbeOutcomes :
              LET entry == ProbeEntry(outcome)
              IN  /\ probe' = Append(probe, <<service_name, outcome>>)
                  /\ IF entry = "raise"
                     THEN /\ hfault' = TRUE
                          /\ hpc' = "done"
                          /\ UNCHANGED health_status
                     ELSE /\ health_status' = DictSet(health_status, service_name, entry)
                          /\ hpc' = IF i = Len(SERVICES) THEN "done" ELSE "probing"
                          /\ UNCHANGED hfault
    /\ UNCHANGED SERVICES
    /\ UNCHANGED proxyVars

\* The health response is out.
HealthClose ==
    /\ hpc = "done"
    /\ hpc' = "idle"
    /\ health_status' = <<>>
    /\ probe' = <<>>
    /\ hfault' = FALSE
    /\ UNCHANGED SERVICES
    /\ UNCHANGED proxyVars

\* ---------------------------------------------------------- specifications

\* Requests that differ in method, service and backend behaviour.
Arrive(r) == ProxyStart(r, RequestMethods, {<<"a">>}, {<<>>}, {<<>>})

\* Requests that differ in service, path, query string and headers.
ArriveAny(r) == ProxyStart(r, {"GET"}, Paths, Queries, HeaderLists)

Next ==
    \/ \E r \in Conns : Arrive(r)
    \/ \E r \in Conns : ProxyForward(r)
    \/ \E r \in Conns : ProxyClose(r)
    \/ HealthStart
    \/ HealthProbe
    \/ HealthClose

\* The gateway under concurrent proxied requests and health checks.
Spec == Init /\ [][Next]_vars

NextRewrite ==
    \/ ArriveAny(1)
    \/ ProxyForward(1)
    \/ ProxyClose(1)

\* One connection, over every path, query string and header list.
SpecRewrite == Init /\ [][NextRewrite]_vars

\* ------------------------------------------------------------------ claims

\* The status a backend that answers puts on its response.
UpstreamStatus(up) == IF up = "ok404" THEN 404 ELSE 200

\* Connection r has answered a request for a service of the table, after
\* reading the request body.
Forwarded(r) ==
    /\ pc[r] = "done"
    /\ req[r].service \in Keys(SERVICES)
    /\ body_read[r] = "ok"

\* C1: a request to a known service whose upstream answers with status s and
\* a well-formed body is answered with that same status s.
C1_UpstreamStatusRelayed ==
    \A r \in Conns :
        (Forwarded(r) /\ upstream[r] \in {"ok200", "ok404"})
            => status[r] = UpstreamStatus(upstream[r])

\* C2: a request whose first path segment is no key of the service table is
\* answered 404, once, and no upstream request is ever sent for it.
C2_UnknownServiceNotFound ==
    \A r \in Conns :
        (pc[r] # "idle" /\ req[r].service \notin Keys(SERVICES))
            => /\ pc[r] = "done"
               /\ status[r] = 404
               /\ responses[r] = 1
               /\ ~fault[r]
               /\ attempts[r] = 0
               /\ target_url[r] = <<>>

C2_Witness ==
    \E r \in Conns :
        /\ pc[r] = "done"
        /\ req[r].service = "payments"
        /\ status[r] = 404

\* C3: a request to a known service whose upstream refuses the connection is
\* answered 503.
C3_ConnectFailure503 ==
    \A r \in Conns :
        (Forwarded(r) /\ upstream[r] = "connect_error") => status[r] = 503

\* C4: a POST to a known service whose upstream times out makes exactly one
\* upstream attempt and is answered 504.
C4_PostTimeoutOnce504 ==
    \A r \in Conns :
        (Forwarded(r) /\ req[r].method = "POST" /\ upstream[r] = "timeout")
            => (attempts[r] = 1 /\ status[r] = 504)

\* C5: a request to a known service whose upstream returns a body that cannot
\* be decoded is answered 502.
C5_Malformed502 ==
    \A r \in Conns :
        (Forwarded(r) /\ upstream[r] = "malformed") => status[r] = 502

\* C6: every request ends with exactly one response carrying a status code,
\* whatever the upstream or the body read does: nothing is written before the
\* handler ends, no exception leaves the handler, and a handler that waits
\* for the body can always go on to its end.
C6_ExactlyOneResponse ==
    \A r \in Conns :
        /\ pc[r] # "done" => (responses[r] = 0 /\ status[r] = 0)
        /\ pc[r] = "done" =>
              /\ responses[r] = 1
              /\ status[r] \in {404, 500, 502, 503, 504}
                    \cup {UpstreamStatus(up) : up \in Upstreams}
              /\ ~fault[r]
        /\ pc[r] = "await_body" => ENABLED ProxyForward(r)

C6_Witness ==
    \E r \in Conns :
        /\ Forwarded(r)
        /\ upstream[r] = "timeout"
        /\ responses[r] = 1
        /\ status[r] = 500
        /\ ~fault[r]

\* The hop-by-hop header names, lower case.
HopByHop ==
    {"host", "connection", "keep-alive", "proxy-authenticate",
     "proxy-authorization", "te", "trailer", "transfer-encoding", "upgrade"}

\* C7: the headers sent upstream hold no hop-by-hop header of the inbound
\* request (names compared case-insensitively) and every other inbound header
\* unchanged.
C7_HopByHopStripped ==
    \A r \in Conns :
        Forwarded(r) =>
            /\ \A k \in Keys(fwd_headers[r]) : Lower(k) \notin HopByHop
            /\ \A i \in 1..Len(req[r].headers) :
                  Lower(req[r].headers[i][1]) \notin HopByHop
                      => \E j \in 1..Len(fwd_headers[r]) :
                            fwd_headers[r][j] = req[r].headers[i]

\* C8: for a known service the upstream target is the service's base URL, a
\* "/", the path remainder, and then "?" and the query string unchanged when
\* the query string is not empty, and nothing more when it is empty.
C8_TargetUrl ==
    \A r \in Conns :
        (pc[r] \in {"await_body", "done"} /\ req[r].service \in Keys(SERVICES)) =>
            LET base == DictGet(ServiceTable, req[r].service)
                t == target_url[r]
                n == Len(base) + 1 + Len(req[r].path)
            IN  /\ Len(t) >= n
                /\ SubSeq(t, 1, Len(base)) = base
                /\ t[Len(base) + 1] = "/"
                /\ SubSeq(t, Len(base) + 2, n) = req[r].path
                /\ IF req[r].query = <<>>
                   THEN Len(t) = n
                   ELSE /\ Len(t) = n + 1 + Len(req[r].query)
                        /\ t[n + 1] = "?"
                        /\ SubSeq(t, n + 2, Len(t)) = req[r].query

C8_Witness ==
    \E r \in Conns :
        /\ pc[r] = "await_body"
        /\ req[r].service = "orders"
        /\ req[r].path = <<"a">>
        /\ req[r].query = <<"q">>
        /\ target_url[r] =
              <<"http:", "/", "/", "localhost:8002", "/", "a", "?", "q">>

\* C9: health_check reports a service healthy only if its probe returned a
\* 2xx status.
C9_HealthyOnly2xx ==
    hpc = "done" =>
        \A i \in 1..Len(health_status) :
            health_status[i][2] = "healthy"
                => DictGet(probe, health_status[i][1]) = "2xx"

\* health_check has returned a result with exactly one entry for every
\* service of the table.
HealthResultComplete ==
    /\ ~hfault
    /\ Len(health_status) = Len(ServiceTable)
    /\ Keys(health_status) = Keys(ServiceTable)
    /\ Len(probe) = Len(ServiceTable)

====
